---- MODULE Spec2Model ----
(***************************************************************************)
(* Model of src/app.py: the upload handler, the format dispatcher, the     *)
(* four parsers (LaTeX zip, single .tex, PDF, DOCX) and the SCORM          *)
(* packager.                                                               *)
(*                                                                         *)
(* Strings are sequences of one-character strings, so that lower(),        *)
(* endswith(), os.path.basename() and os.path.splitext() are computed.     *)
(* A dict is a sequence of [k, v] records with distinct keys, in insertion *)
(* order, as a Python dict is.  An HTML string is the sequence of its      *)
(* elements, each a record [t, v]: t the kind of element, v its text.      *)
(***************************************************************************)
EXTENDS Integers, Sequences, FiniteSets, TLC

VARIABLES
    upload,         \* uploaded_file: [name, content]
    pc,             \* position of the upload handler
    parser,         \* the parser the dispatcher has invoked, "none" before
    html,           \* html_result / final_html
    images,         \* images / images_dict
    found,          \* found_key of every placeholder, in order of replacement
    error,          \* the exception the handler has caught, "none" if none
    package,        \* scorm_data: the members of the written archive
    pdfHandle,      \* doc of parse_pdf_to_html_with_images: none, open, closed
    page_index,     \* loop variable of the page loop (0-based as in the code)
    img_index,      \* position in image_list of the current page (0-based)
    image_counter,  \* image_counter of parse_pdf_to_html_with_images
    all_text,       \* all_text of parse_pdf_to_html_with_images
    pdf_images_dict, \* images_dict of parse_pdf_to_html_with_images
    tempFile,       \* the content of the file "temp_upload.docx"
    cin,            \* docx_bytes of each concurrent conversion
    cpc,            \* position of each concurrent conversion
    cdoc,           \* what Document(temp_path) loaded, per conversion
    cout            \* the paragraphs each concurrent conversion returned

vars == <<upload, pc, parser, html, images, found, error, package, pdfHandle,
          page_index, img_index, image_counter, all_text, pdf_images_dict,
          tempFile,
          cin, cpc, cdoc, cout>>

pdfVars == <<pdfHandle, page_index, img_index, image_counter, all_text,
             pdf_images_dict>>

seqVars == <<upload, pc, parser, html, images, found, error, package, pdfHandle,
             page_index, img_index, image_counter, all_text,
             pdf_images_dict>>

concVars == <<cin, cpc, cdoc, cout>>

(***************************************************************************)
(* Bounds of the inputs.                                                   *)
(***************************************************************************)
MaxMembers == 3
MaxPages == 2
MaxMedia == 2

(***************************************************************************)
(* Python's str operations.                                                *)
(***************************************************************************)
None == <<>>

LowerChar(c) ==
    CASE c = "A" -> "a" [] c = "B" -> "b" [] c = "D" -> "d" [] c = "E" -> "e"
      [] c = "F" -> "f" [] c = "G" -> "g" [] c = "I" -> "i" [] c = "J" -> "j"
      [] c = "M" -> "m" [] c = "N" -> "n" [] c = "O" -> "o" [] c = "P" -> "p"
      [] c = "T" -> "t" [] c = "W" -> "w" [] c = "X" -> "x" [] c = "Z" -> "z"
      [] OTHER -> c

Lower(s) == [i \in 1..Len(s) |-> LowerChar(s[i])]

EndsWith(s, suf) ==
    /\ Len(s) >= Len(suf)
    /\ SubSeq(s, Len(s) - Len(suf) + 1, Len(s)) = suf

StartsWith(s, pre) ==
    /\ Len(s) >= Len(pre)
    /\ SubSeq(s, 1, Len(pre)) = pre

MaxOf(S) == CHOOSE m \in S : \A x \in S : x <= m

MinOf(S) == CHOOSE m \in S : \A x \in S : m <= x

\* str.rfind, 1-based: 0 when c does not occur in s
RFind(s, c) ==
    LET I == {i \in 1..Len(s) : s[i] = c}
    IN  IF I = {} THEN 0 ELSE MaxOf(I)

IsSpace(c) == c = " "

\* str.strip()
Strip(s) ==
    LET I == {i \in 1..Len(s) : ~IsSpace(s[i])}
    IN  IF I = {} THEN <<>> ELSE SubSeq(s, MinOf(I), MaxOf(I))

\* os.path.basename (posixpath)
Basename(p) == SubSeq(p, RFind(p, "/") + 1, Len(p))

\* os.path.splitext(p)[1] (genericpath._splitext): the extension starts at the
\* last dot after the last separator, unless the name has only dots before it
SplitextExt(p) ==
    LET sepIndex == RFind(p, "/")
        dotIndex == RFind(p, ".")
    IN  IF dotIndex > sepIndex
           /\ \E i \in (sepIndex + 1)..(dotIndex - 1) : p[i] # "."
        THEN SubSeq(p, dotIndex, Len(p))
        ELSE <<>>

Digit(d) ==
    CASE d = 0 -> "0" [] d = 1 -> "1" [] d = 2 -> "2" [] d = 3 -> "3"
      [] d = 4 -> "4" [] d = 5 -> "5" [] d = 6 -> "6" [] d = 7 -> "7"
      [] d = 8 -> "8" [] d = 9 -> "9"

RECURSIVE Str(_)
\* str(n) of a natural number, as an f-string formats it
Str(n) == IF n < 10 THEN <<Digit(n)>> ELSE Str(n \div 10) \o <<Digit(n % 10)>>

(***************************************************************************)
(* Python's dict, in insertion order.                                      *)
(***************************************************************************)
Keys(d) == [i \in 1..Len(d) |-> d[i].k]

KeySet(d) == {d[i].k : i \in 1..Len(d)}

HasKey(d, k) == k \in KeySet(d)

Get(d, k) == d[CHOOSE i \in 1..Len(d) : d[i].k = k].v

\* d[k] = v
Put(d, k, v) ==
    IF HasKey(d, k)
    THEN [i \in 1..Len(d) |-> IF d[i].k = k THEN [k |-> k, v |-> v] ELSE d[i]]
    ELSE Append(d, [k |-> k, v |-> v])

(***************************************************************************)
(* The literals of the code.                                               *)
(***************************************************************************)
ExtPdf == <<".", "p", "d", "f">>
ExtDocx == <<".", "d", "o", "c", "x">>
ExtZip == <<".", "z", "i", "p">>
ExtTex == <<".", "t", "e", "x">>
ExtPng == <<".", "p", "n", "g">>
ExtJpg == <<".", "j", "p", "g">>
ExtJpeg == <<".", "j", "p", "e", "g">>
ExtGif == <<".", "g", "i", "f">>

\* the tuple of line 34 and the list of line 65
ImageExts == <<ExtPng, ExtJpg, ExtJpeg, ExtGif>>

MediaPrefix == <<"w", "o", "r", "d", "/", "m", "e", "d", "i", "a", "/">>
PdfImagePrefix == <<"p", "d", "f", "_", "i", "m", "a", "g", "e", "_">>
DocxImagePrefix == <<"d", "o", "c", "x", "_", "i", "m", "a", "g", "e", "_">>
IndexHtml == <<"i", "n", "d", "e", "x", ".", "h", "t", "m", "l">>
ManifestXml == <<"i", "m", "s", "m", "a", "n", "i", "f", "e", "s", "t", ".", "x", "m", "l">>
TempPath == <<"t", "e", "m", "p", "_", "u", "p", "l", "o", "a", "d", ".", "d", "o", "c", "x">>

(***************************************************************************)
(* The uploads.  A file content is [fmt, list, tex, pages, paras]: fmt is   *)
(* what the bytes are ("zip", "docx", "pdf", "tex", "junk", "empty"), list  *)
(* the members of a zip container in listing order (a DOCX is one too),     *)
(* tex the text of a .tex file, pages the pages of a PDF, paras the         *)
(* paragraphs of a DOCX.  A zip member is [name, data, tex]: data stands    *)
(* for its bytes, tex for its text when it is a LaTeX source.  The text of  *)
(* a LaTeX source is the sequence of the references of its                  *)
(* \includegraphics directives; a run of plain text surrounds each.         *)
(* The members of a container have distinct names.                         *)
(***************************************************************************)
DistinctSeqs(S, n) ==
    UNION {{s \in [1..k -> S] : \A i, j \in 1..k : i # j => s[i] # s[j]} : k \in 0..n}

SeqsUpTo(S, n) == UNION {[1..k -> S] : k \in 0..n}

\* uploaded_file.name
FileNames ==
    { <<"a", ".", "p", "d", "f">>,
      <<"B", ".", "P", "D", "F">>,
      <<"c", ".", "d", "o", "c", "x">>,
      <<"d", ".", "z", "i", "p">>,
      <<"E", ".", "Z", "i", "p">>,
      <<"f", ".", "t", "e", "x">>,
      <<"g", ".", "t", "x", "t">>,
      <<"p", "d", "f">>,
      <<"h", ".", "t", "e", "x", ".", "b", "a", "k">> }

\* the references of \includegraphics{...}
RefA == <<"a">>
RefAPng == <<"a", ".", "p", "n", "g">>
RefDirA == <<"f", "/", "a">>
RefMissing == <<"x">>
RefSpaced == <<" ", "A", " ">>

Refs == {RefA, RefAPng, RefDirA, RefMissing, RefSpaced}

TexDocs == {<<>>} \cup {<<r>> : r \in Refs} \cup {<<RefA, RefMissing>>, <<RefDirA, RefAPng>>}

\* the member names of an uploaded LaTeX archive
MainTex == <<"m", ".", "t", "e", "x">>
OtherTex == <<"N", ".", "T", "E", "X">>
APng == <<"a", ".", "p", "n", "g">>
DirAPng == <<"f", "/", "a", ".", "p", "n", "g">>
AJpgUpper == <<"A", ".", "J", "P", "G">>
APngPng == <<"a", ".", "p", "n", "g", ".", "p", "n", "g">>
ReadmeTxt == <<"r", ".", "t", "x", "t">>

ZipNames == {MainTex, OtherTex, APng, DirAPng, AJpgUpper, APngPng, ReadmeTxt}

\* the member names of an uploaded DOCX container
DocumentXml == <<"w", "o", "r", "d", "/", "d", ".", "x", "m", "l">>
MediaPng == MediaPrefix \o <<"i", ".", "p", "n", "g">>
MediaJpeg == MediaPrefix \o <<"j", ".", "j", "p", "e", "g">>
MediaUpperGif == <<"W", "o", "r", "d", "/", "M", "e", "d", "i", "a", "/", "k", ".", "G", "I", "F">>
MediaNoExt == MediaPrefix \o <<"n">>

DocxNames == {DocumentXml, MediaPng, MediaJpeg, MediaUpperGif, MediaNoExt}

\* the bytes of a member: one value per name
MemberData(name) ==
    CASE name = APng -> 11 [] name = DirAPng -> 12 [] name = AJpgUpper -> 13
      [] name = APngPng -> 14 [] name = ReadmeTxt -> 15
      [] name = MediaPng -> 21 [] name = MediaJpeg -> 22
      [] name = MediaUpperGif -> 23 [] name = MediaNoExt -> 24
      [] OTHER -> 0

Member(name, doc) ==
    [name |-> name,
     data |-> MemberData(name),
     tex |-> IF name = MainTex THEN doc ELSE IF name = OtherTex THEN <<RefMissing>> ELSE <<>>]

Content(fmt, list, tex, pages, paras) ==
    [fmt |-> fmt, list |-> list, tex |-> tex, pages |-> pages, paras |-> paras]

Archives ==
    {Content("zip", [i \in 1..Len(ns) |-> Member(ns[i], d)], <<>>, <<>>, <<>>) :
        ns \in DistinctSeqs(ZipNames, MaxMembers), d \in TexDocs}

TexFileContents == {Content("tex", <<>>, d, <<>>, <<>>) : d \in TexDocs}

\* what doc.extract_image(xref) gives: the bytes, the format, or an exception
PdfImage(ext, data) == [ext |-> ext, data |-> data, ok |-> TRUE]
BadImage == [ext |-> <<>>, data |-> 0, ok |-> FALSE]
FmtPng == <<"p", "n", "g">>
FmtJpeg == <<"j", "p", "e", "g">>

PageImageLists ==
    { <<>>,
      <<PdfImage(FmtPng, 31)>>,
      <<PdfImage(FmtPng, 31), PdfImage(FmtJpeg, 32)>>,
      <<BadImage>>,
      <<PdfImage(FmtPng, 31), BadImage>> }

\* a page: ok is whether page.get_text succeeds
Pages ==
    {[ok |-> FALSE, text |-> <<>>, imgs |-> <<>>]}
    \cup {[ok |-> TRUE, text |-> <<"t">>, imgs |-> l] : l \in PageImageLists}

PdfDocs == {Content("pdf", <<>>, <<>>, ps, <<>>) : ps \in SeqsUpTo(Pages, MaxPages)}

ParaLists ==
    { <<>>,
      << <<"h", "i">> >>,
      << <<"h", "i">>, <<" ">>, <<"y", "o">>, <<>> >> }

DocxDocs ==
    {Content("docx", [i \in 1..Len(ns) |-> Member(ns[i], <<>>)], <<>>, <<>>, ps) :
        ns \in DistinctSeqs(DocxNames, MaxMedia), ps \in ParaLists}

Junk == Content("junk", <<>>, <<>>, <<>>, <<>>)

\* the file after open(temp_path, "wb") and before the write
EmptyFile == Content("empty", <<>>, <<>>, <<>>, <<>>)

Contents == Archives \cup TexFileContents \cup PdfDocs \cup DocxDocs \cup {Junk}

\* uploaded_file: any name with any bytes
Uploads == {[name |-> n, content |-> c] : n \in FileNames, c \in Contents}

(***************************************************************************)
(* HTML elements.                                                          *)
(***************************************************************************)
Text(v) == [t |-> "text", v |-> v]
Br == [t |-> "br", v |-> <<>>]
Img(src) == [t |-> "img", v |-> src]
NotFound(ref) == [t |-> "warn", v |-> ref]
Placeholder(ref) == [t |-> "ph", v |-> ref]
Heading(v) == [t |-> "h", v |-> v]
Hr == [t |-> "hr", v |-> <<>>]

\* the X of every <img src="X"> of an HTML string
ImgSrcs(h) == {h[i].v : i \in {j \in 1..Len(h) : h[j].t = "img"}}

(***************************************************************************)
(* parse_file_to_html_with_images: the dispatcher.                         *)
(***************************************************************************)
SelectParserAnyTex(filename) ==
    LET lower_name == Lower(filename)
    IN  IF EndsWith(lower_name, ExtPdf) THEN "pdf"
        ELSE IF EndsWith(lower_name, ExtDocx) THEN "docx"
        ELSE IF EndsWith(lower_name, ExtZip) THEN "zip"
        ELSE "tex"

SelectParser(filename) ==
    LET lower_name == Lower(filename)
    IN  IF EndsWith(lower_name, ExtPdf) THEN "pdf"
        ELSE IF EndsWith(lower_name, ExtDocx) THEN "docx"
        ELSE IF EndsWith(lower_name, ExtZip) THEN "zip"
        ELSE IF EndsWith(lower_name, ExtTex) THEN "tex"
        ELSE "unsupported"

(***************************************************************************)
(* parse_latex_zip_to_html_with_images.                                    *)
(***************************************************************************)
\* zipfile.ZipFile(BytesIO(b)) opens a zip container, and a DOCX is one
IsZip(content) == content.fmt \in {"zip", "docx"}

\* zip_ref.namelist()
NameList(content) == [i \in 1..Len(content.list) |-> content.list[i].name]

\* zip_ref.open(name).read(): the member of that name
ZipMember(content, name) ==
    content.list[CHOOSE i \in 1..Len(content.list) : content.list[i].name = name]

IsTexName(f) == EndsWith(Lower(f), ExtTex)

\* line 21
TexFiles(file_list) == SelectSeq(file_list, IsTexName)

\* line 34: lower_f.endswith(('.png', '.jpg', '.jpeg', '.gif'))
IsImageName(f) == \E j \in 1..Len(ImageExts) : EndsWith(Lower(f), ImageExts[j])

RECURSIVE CollectImages(_, _, _, _)
\* lines 31-36: the loop over file_list, from position i on
CollectImages(content, file_list, i, images_dict) ==
    IF i > Len(file_list) THEN images_dict
    ELSE LET f == file_list[i]
         IN  CollectImages(content, file_list, i + 1,
                 IF IsImageName(f)
                 THEN Put(images_dict, f, ZipMember(content, f).data)
                 ELSE images_dict)

RECURSIVE ReplaceGraphics(_, _)
\* lines 39-44: every \includegraphics{ref} becomes [IMG::ref]; the text around stays
ReplaceGraphics(latex_content, i) ==
    IF i > Len(latex_content) THEN <<Text(<<>>)>>
    ELSE <<Text(<<>>), Placeholder(latex_content[i])>> \o ReplaceGraphics(latex_content, i + 1)

RECURSIVE FirstMatch(_, _, _)
\* lines 57-61 and 67-70: the first key whose basename is the candidate
FirstMatch(keys, candidate, i) ==
    IF i > Len(keys) THEN None
    ELSE IF Lower(Basename(keys[i])) = Lower(candidate) THEN keys[i]
    ELSE FirstMatch(keys, candidate, i + 1)

RECURSIVE TryExtensions(_, _, _, _)
\* lines 65-72: the loop over the extensions, from position j on
TryExtensions(keys, img_name, exts, j) ==
    IF j > Len(exts) THEN None
    ELSE LET found_key == FirstMatch(keys, img_name \o exts[j], 1)
         IN  IF found_key # None THEN found_key
             ELSE TryExtensions(keys, img_name, exts, j + 1)

FindKeyExtFirst(images_dict, img_name) ==
    LET found_key == TryExtensions(Keys(images_dict), img_name, ImageExts, 1)
    IN  IF found_key # None THEN found_key
        ELSE FirstMatch(Keys(images_dict), img_name, 1)

\* lines 56-72: found_key of replace_img_placeholder
FindKey(images_dict, img_name) ==
    LET found_key == FirstMatch(Keys(images_dict), img_name, 1)
    IN  IF found_key # None THEN found_key
        ELSE TryExtensions(Keys(images_dict), img_name, ImageExts, 1)

\* line 53
ImgName(ref) == Strip(ref)

\* lines 52-77
ReplaceImgPlaceholder(images_dict, ref) ==
    LET img_name == ImgName(ref)
        found_key == FindKey(images_dict, img_name)
    IN  IF found_key # None THEN Img(Basename(found_key)) ELSE NotFound(img_name)

\* line 79: re.sub over the converted text
ReplacePlaceholders(images_dict, text_converted) ==
    [i \in 1..Len(text_converted) |->
        IF text_converted[i].t = "ph"
        THEN ReplaceImgPlaceholder(images_dict, text_converted[i].v)
        ELSE text_converted[i]]

\* found_key of each call of replace_img_placeholder, in order
FoundKeys(images_dict, latex_content) ==
    [i \in 1..Len(latex_content) |-> FindKey(images_dict, ImgName(latex_content[i]))]

LatexZipResultNoCheck(content) ==
    IF ~IsZip(content)
    THEN [ok |-> FALSE, err |-> "zip:bad_zip", html |-> <<>>, images |-> <<>>, found |-> <<>>]
    ELSE LET file_list == NameList(content)
             tex_files == TexFiles(file_list)
             latex_content == IF tex_files = <<>> THEN <<>>
                              ELSE ZipMember(content, tex_files[1]).tex
             images_dict == CollectImages(content, file_list, 1, <<>>)
         IN  [ok |-> TRUE, err |-> "none",
              html |-> ReplacePlaceholders(images_dict, ReplaceGraphics(latex_content, 1)),
              images |-> images_dict,
              found |-> FoundKeys(images_dict, latex_content)]

\* lines 17-89: what the parser returns, or the exception it raises
LatexZipResult(content) ==
    IF ~IsZip(content)
    THEN [ok |-> FALSE, err |-> "zip:bad_zip", html |-> <<>>, images |-> <<>>, found |-> <<>>]
    ELSE LET file_list == NameList(content)
             tex_files == TexFiles(file_list)
         IN  IF tex_files = <<>>
             THEN [ok |-> FALSE, err |-> "zip:no_tex", html |-> <<>>, images |-> <<>>,
                   found |-> <<>>]
             ELSE LET latex_content == ZipMember(content, tex_files[1]).tex
                      images_dict == CollectImages(content, file_list, 1, <<>>)
                      latex_content_modified == ReplaceGraphics(latex_content, 1)
                  IN  [ok |-> TRUE, err |-> "none",
                       html |-> ReplacePlaceholders(images_dict, latex_content_modified),
                       images |-> images_dict,
                       found |-> FoundKeys(images_dict, latex_content)]

(***************************************************************************)
(* parse_single_tex_to_html.                                               *)
(***************************************************************************)
\* lines 181-185: the bytes decode with errors='replace' whatever they are;
\* LatexNodes2Text keeps the text and no directive
SingleTexHtml(content) ==
    LET latex_content == IF content.fmt = "tex" THEN content.tex ELSE <<>>
    IN  [i \in 1..(Len(latex_content) + 1) |-> Text(<<>>)]

(***************************************************************************)
(* parse_docx_to_html_with_images.                                         *)
(***************************************************************************)
\* line 143: Document(temp_path) loads a DOCX and raises on anything else
IsDocx(file) == file.fmt = "docx"

IsNonBlank(p) == Strip(p) # <<>>

\* line 144
Paragraphs(doc) == SelectSeq(doc.paras, IsNonBlank)

IsMediaName(f) == StartsWith(Lower(f), MediaPrefix)

\* line 151
MediaFiles(file_list) == SelectSeq(file_list, IsMediaName)

DocxImageNameFromZero(i, mf) == DocxImagePrefix \o Str(i - 1) \o SplitextExt(mf)

\* lines 155-156
DocxImageName(i, mf) == DocxImagePrefix \o Str(i) \o SplitextExt(mf)

RECURSIVE ExtractMedia(_, _, _, _)
\* lines 152-157: enumerate(media_files, start=1), from position i on
ExtractMedia(content, media_files, i, images_dict) ==
    IF i > Len(media_files) THEN images_dict
    ELSE LET mf == media_files[i]
         IN  ExtractMedia(content, media_files, i + 1,
                 Put(images_dict, DocxImageName(i, mf), ZipMember(content, mf).data))

\* lines 149-157
DocxImages(content) == ExtractMedia(content, MediaFiles(NameList(content)), 1, <<>>)

RECURSIVE Join(_, _)
\* line 146: "<br>".join(paragraphs)
Join(paragraphs, i) ==
    IF i > Len(paragraphs) THEN <<>>
    ELSE (IF i > 1 THEN <<Br>> ELSE <<>>) \o <<Text(paragraphs[i])>> \o Join(paragraphs, i + 1)

\* lines 159-168
DocxHtml(paragraphs, images_dict) ==
    Join(paragraphs, 1)
    \o (IF images_dict # <<>>
        THEN <<Hr, Heading(<<>>)>> \o [i \in 1..Len(images_dict) |-> Img(images_dict[i].k)]
        ELSE <<>>)

(***************************************************************************)
(* create_scorm_package.                                                   *)
(***************************************************************************)
\* a member of the written archive; text is the markup of index.html
Entry(name, data, text) == [name |-> name, data |-> data, text |-> text]

ZipWriteNoAssets(html_content, additional_files) ==
    <<Entry(IndexHtml, 0, html_content), Entry(ManifestXml, 0, <<>>)>>

\* lines 230-236: one writestr per member
ZipWrite(html_content, additional_files) ==
    <<Entry(IndexHtml, 0, html_content), Entry(ManifestXml, 0, <<>>)>>
    \o [i \in 1..Len(additional_files) |->
           Entry(additional_files[i].k, additional_files[i].v, <<>>)]

(***************************************************************************)
(* The upload handler (lines 273-291), one conversion at a time.           *)
(***************************************************************************)
Init ==
    /\ upload \in Uploads
    /\ pc = "start"
    /\ parser = "none"
    /\ html = <<>>
    /\ images = <<>>
    /\ found = <<>>
    /\ error = "none"
    /\ package = <<>>
    /\ pdfHandle = "none"
    /\ page_index = 0
    /\ img_index = 0
    /\ image_counter = 1
    /\ all_text = <<>>
    /\ pdf_images_dict = <<>>
    /\ tempFile = EmptyFile
    /\ cin = <<>>
    /\ cpc = <<>>
    /\ cdoc = <<>>
    /\ cout = <<>>

\* lines 247-260: the parser is chosen, or the ValueError of line 260 is raised
Dispatch ==
    /\ pc = "start"
    /\ LET kind == SelectParser(upload.name)
       IN  IF kind = "unsupported"
           THEN /\ error' = "unsupported"
                /\ pc' = "error"
                /\ parser' = parser
           ELSE /\ parser' = kind
                /\ pc' = kind
                /\ error' = error
    /\ UNCHANGED <<upload, html, images, found, package, pdfVars, tempFile, concVars>>

\* lines 17-89
ParseLatexZip ==
    /\ pc = "zip"
    /\ LET r == LatexZipResult(upload.content)
       IN  IF r.ok
           THEN /\ html' = r.html
                /\ images' = r.images
                /\ found' = r.found
                /\ pc' = "parsed"
                /\ error' = error
           ELSE /\ error' = r.err
                /\ pc' = "error"
                /\ UNCHANGED <<html, images, found>>
    /\ UNCHANGED <<upload, parser, package, pdfVars, tempFile, concVars>>

\* lines 180-187
ParseSingleTex ==
    /\ pc = "tex"
    /\ html' = SingleTexHtml(upload.content)
    /\ images' = <<>>
    /\ pc' = "parsed"
    /\ UNCHANGED <<upload, parser, found, error, package, pdfVars, tempFile, concVars>>

\* lines 137-171: the bytes are staged in temp_upload.docx and loaded from there
ParseDocx ==
    /\ pc = "docx"
    /\ tempFile' = upload.content
    /\ IF IsDocx(tempFile')
       THEN LET docx_images == DocxImages(upload.content)
            IN  /\ html' = DocxHtml(Paragraphs(tempFile'), docx_images)
                /\ images' = docx_images
                /\ pc' = "parsed"
                /\ error' = error
       ELSE /\ error' = "docx:load"
            /\ pc' = "error"
            /\ UNCHANGED <<html, images>>
    /\ UNCHANGED <<upload, parser, found, package, pdfVars, concVars>>

\* lines 98-101: fitz.open and the initialisations
PdfOpen ==
    /\ pc = "pdf"
    /\ IF upload.content.fmt = "pdf"
       THEN /\ pdfHandle' = "open"
            /\ pc' = "pdf_page"
            /\ error' = error
       ELSE /\ error' = "pdf:open"
            /\ pc' = "error"
            /\ pdfHandle' = pdfHandle
    /\ all_text' = <<>>
    /\ pdf_images_dict' = <<>>
    /\ image_counter' = 1
    /\ page_index' = 0
    /\ img_index' = 0
    /\ UNCHANGED <<upload, parser, html, images, found, package, tempFile, concVars>>

\* lines 104-110: the text of one page; get_text may raise (line 128)
PdfPageText ==
    /\ pc = "pdf_page"
    /\ page_index < Len(upload.content.pages)
    /\ LET page == upload.content.pages[page_index + 1]
       IN  IF page.ok
           THEN /\ all_text' = all_text \o <<Heading(Str(page_index + 1)), Text(page.text)>>
                /\ img_index' = 0
                /\ pc' = "pdf_images"
                /\ error' = error
           ELSE /\ error' = "pdf:extract"
                /\ pc' = "error"
                /\ UNCHANGED <<all_text, img_index>>
    /\ UNCHANGED <<upload, parser, html, images, found, package, pdfHandle, page_index,
                   image_counter, pdf_images_dict, tempFile, concVars>>

PdfImageNamePageIndex(page_no, counter, img_ext) ==
    PdfImagePrefix \o Str(page_no - 1) \o <<"_">> \o Str(counter) \o <<".">> \o img_ext

\* the name of line 116
PdfImageName(page_no, counter, img_ext) ==
    PdfImagePrefix \o Str(page_no) \o <<"_">> \o Str(counter) \o <<".">> \o img_ext

\* lines 111-120: one image of the page; extract_image may raise (line 128)
PdfExtractImage ==
    /\ pc = "pdf_images"
    /\ img_index < Len(upload.content.pages[page_index + 1].imgs)
    /\ LET base_image == upload.content.pages[page_index + 1].imgs[img_index + 1]
           img_filename == PdfImageName(page_index + 1, image_counter, base_image.ext)
       IN  IF base_image.ok
           THEN /\ pdf_images_dict' = Put(pdf_images_dict, img_filename, base_image.data)
                /\ all_text' = Append(all_text, Img(img_filename))
                /\ image_counter' = image_counter + 1
                /\ img_index' = img_index + 1
                /\ UNCHANGED <<pc, error>>
           ELSE /\ error' = "pdf:extract"
                /\ pc' = "error"
                /\ UNCHANGED <<pdf_images_dict, all_text, image_counter, img_index>>
    /\ UNCHANGED <<upload, parser, html, images, found, package, pdfHandle, page_index,
                   tempFile, concVars>>

\* line 103: the images of the page are done, the loop goes to the next page
PdfNextPage ==
    /\ pc = "pdf_images"
    /\ img_index = Len(upload.content.pages[page_index + 1].imgs)
    /\ page_index' = page_index + 1
    /\ pc' = "pdf_page"
    /\ UNCHANGED <<upload, parser, html, images, found, error, package, pdfHandle,
                   img_index, image_counter, all_text, pdf_images_dict, tempFile, concVars>>

\* lines 122-127: doc.close() and the return
PdfFinish ==
    /\ pc = "pdf_page"
    /\ page_index = Len(upload.content.pages)
    /\ pdfHandle' = "closed"
    /\ html' = all_text
    /\ images' = pdf_images_dict
    /\ pc' = "parsed"
    /\ UNCHANGED <<upload, parser, found, error, package, page_index, img_index,
                   image_counter, all_text, pdf_images_dict, tempFile, concVars>>

\* line 282
CreateScormPackage ==
    /\ pc = "parsed"
    /\ package' = ZipWrite(html, images)
    /\ pc' = "packaged"
    /\ UNCHANGED <<upload, parser, html, images, found, error, pdfVars, tempFile, concVars>>

Next ==
    \/ Dispatch
    \/ ParseLatexZip
    \/ ParseSingleTex
    \/ ParseDocx
    \/ PdfOpen
    \/ PdfPageText
    \/ PdfExtractImage
    \/ PdfNextPage
    \/ PdfFinish
    \/ CreateScormPackage

Spec == Init /\ [][Next]_vars

(***************************************************************************)
(* Two DOCX conversions at once, as two sessions of the app run them: each  *)
(* is parse_docx_to_html_with_images cut at its file operations.  A write   *)
(* is taken to replace the whole file.                                      *)
(***************************************************************************)
Procs == {1, 2}

ConcDocs ==
    {d \in DocxDocs : Len(d.list) <= 1 /\ d.paras # <<>>
                      /\ \A i \in 1..Len(d.list) : d.list[i].name \in {MediaPng, MediaJpeg}}
    \cup {Content("docx", <<>>, <<>>, <<>>, << <<"o", "k">> >>)}

NoResult == [paragraphs |-> <<>>, html |-> <<>>, images |-> <<>>]

InitConc ==
    /\ cin \in [Procs -> ConcDocs]
    /\ cpc = [p \in Procs |-> "start"]
    /\ cdoc = [p \in Procs |-> EmptyFile]
    /\ cout = [p \in Procs |-> NoResult]
    /\ tempFile = EmptyFile
    /\ upload = [name |-> <<>>, content |-> Junk]
    /\ pc = "idle"
    /\ parser = "none"
    /\ html = <<>>
    /\ images = <<>>
    /\ found = <<>>
    /\ error = "none"
    /\ package = <<>>
    /\ pdfHandle = "none"
    /\ page_index = 0
    /\ img_index = 0
    /\ image_counter = 1
    /\ all_text = <<>>
    /\ pdf_images_dict = <<>>

\* line 140: open(temp_path, "wb") truncates the file
COpen(p) ==
    /\ cpc[p] = "start"
    /\ tempFile' = EmptyFile
    /\ cpc' = [cpc EXCEPT ![p] = "opened"]
    /\ UNCHANGED <<cin, cdoc, cout, seqVars>>

\* line 141: the write, flushed when the with block closes the file
CWrite(p) ==
    /\ cpc[p] = "opened"
    /\ tempFile' = cin[p]
    /\ cpc' = [cpc EXCEPT ![p] = "written"]
    /\ UNCHANGED <<cin, cdoc, cout, seqVars>>

\* line 143: Document(temp_path) reads whatever the file holds now
CLoad(p) ==
    /\ cpc[p] = "written"
    /\ IF IsDocx(tempFile)
       THEN /\ cdoc' = [cdoc EXCEPT ![p] = tempFile]
            /\ cpc' = [cpc EXCEPT ![p] = "loaded"]
       ELSE /\ cpc' = [cpc EXCEPT ![p] = "failed"]
            /\ cdoc' = cdoc
    /\ UNCHANGED <<cin, cout, tempFile, seqVars>>

\* lines 144-169: the paragraphs of the loaded document, the images of docx_bytes
CFinish(p) ==
    /\ cpc[p] = "loaded"
    /\ LET paragraphs == Paragraphs(cdoc[p])
           docx_images == DocxImages(cin[p])
       IN  cout' = [cout EXCEPT ![p] = [paragraphs |-> paragraphs,
                                        html |-> DocxHtml(paragraphs, docx_images),
                                        images |-> docx_images]]
    /\ cpc' = [cpc EXCEPT ![p] = "done"]
    /\ UNCHANGED <<cin, cdoc, tempFile, seqVars>>

NextConc == \E p \in Procs : COpen(p) \/ CWrite(p) \/ CLoad(p) \/ CFinish(p)

SpecConc == InitConc /\ [][NextConc]_vars

(***************************************************************************)
(* Properties.                                                             *)
(***************************************************************************)
Returned == pc \in {"parsed", "packaged"}

\* the LaTeX source the archive parser reads: the first .tex member listed
SourceRefs ==
    LET tex_members == SelectSeq(upload.content.list, LAMBDA m : IsTexName(m.name))
    IN  IF tex_members = <<>> THEN <<>> ELSE tex_members[1].tex

\* the element that stands where the i-th \includegraphics stood
ElementOfRef(i) == html[2 * i]

\* the src of the <img> elements of an HTML string, in order
ImgSeq(h) ==
    LET imgs == SelectSeq(h, LAMBDA e : e.t = "img")
    IN  [i \in 1..Len(imgs) |-> imgs[i].v]

\* C1: after a successful conversion by any parser, the src of every <img> of
\* the HTML is a key of the returned image mapping, and in the LaTeX archive
\* parser an unresolved reference gives the not-found warning, not an <img>.
C1_ImgSrcIsMappingKey ==
    Returned =>
        /\ ImgSrcs(html) \subseteq KeySet(images)
        /\ parser = "zip" =>
               \A i \in 1..Len(found) :
                   found[i] = None => ElementOfRef(i) = NotFound(Strip(SourceRefs[i]))

\* C2: the package holds exactly imsmanifest.xml, index.html and one member
\* per key of the image mapping, none twice, each asset with the bytes the
\* mapping stores under its key.
C2_PackageMembers ==
    pc = "packaged" =>
        LET names == {package[i].name : i \in 1..Len(package)}
        IN  /\ names = {ManifestXml, IndexHtml} \cup KeySet(images)
            /\ Len(package) = Cardinality(names)
            /\ \A i \in 1..Len(package) :
                   package[i].name \in KeySet(images) =>
                       package[i].data = Get(images, package[i].name)

C2_Witness ==
    /\ pc = "packaged"
    /\ Len(images) >= 2
    /\ Len(package) = 4

\* C3: the k-th image of page p of a PDF is named pdf_image_<p>_<k>.<ext>,
\* k counted from 1 within the page.
C3_PdfCounterRestartsPerPage ==
    (Returned /\ parser = "pdf") =>
        \A p \in 1..Len(upload.content.pages) :
            \A k \in 1..Len(upload.content.pages[p].imgs) :
                LET img == upload.content.pages[p].imgs[k]
                    name == PdfImagePrefix \o Str(p) \o <<"_">> \o Str(k) \o <<".">> \o img.ext
                IN  /\ HasKey(images, name)
                    /\ Get(images, name) = img.data

RECURSIVE ImagesBefore(_)
\* the number of images on the pages before page p
ImagesBefore(p) ==
    IF p <= 1 THEN 0 ELSE ImagesBefore(p - 1) + Len(upload.content.pages[p - 1].imgs)

\* C3, amended: the counter runs on through the document: the k-th image of
\* page p is named pdf_image_<p>_<n>.<ext>, n being k plus the number of
\* images on the pages before p.
C3_PdfCounterRunsOn ==
    (Returned /\ parser = "pdf") =>
        /\ Len(images) = ImagesBefore(Len(upload.content.pages) + 1)
        /\ \A p \in 1..Len(upload.content.pages) :
               \A k \in 1..Len(upload.content.pages[p].imgs) :
                   LET img == upload.content.pages[p].imgs[k]
                       n == ImagesBefore(p) + k
                       name == PdfImagePrefix \o Str(p) \o <<"_">> \o Str(n) \o <<".">> \o img.ext
                   IN  /\ images[n] = [k |-> name, v |-> img.data]
                       /\ name \in ImgSrcs(html)

C3_Witness ==
    /\ Returned
    /\ parser = "pdf"
    /\ Len(upload.content.pages) = 2
    /\ Len(upload.content.pages[1].imgs) = 2
    /\ Len(upload.content.pages[2].imgs) = 1
    /\ Keys(images) =
           << PdfImagePrefix \o <<"1", "_", "1", ".", "p", "n", "g">>,
              PdfImagePrefix \o <<"1", "_", "2", ".", "j", "p", "e", "g">>,
              PdfImagePrefix \o <<"2", "_", "3", ".", "p", "n", "g">> >>

\* C4: a reference with a directory and no extension resolves to the archive
\* image whose path is the reference plus an image extension, and the <img>
\* names the base filename of that image.
C4_DirectoryReferenceResolves ==
    (Returned /\ parser = "zip") =>
        \A i \in 1..Len(SourceRefs) :
            LET r == SourceRefs[i]
            IN  \A j \in 1..Len(ImageExts) :
                    ( /\ RFind(r, "/") > 0
                      /\ RFind(r, ".") = 0
                      /\ HasKey(images, r \o ImageExts[j]) )
                    => /\ ElementOfRef(i).t = "img"
                       /\ ElementOfRef(i).v = Basename(r \o ImageExts[j])

\* the members under word/media/ in listing order
MediaMembers ==
    SelectSeq(upload.content.list,
              LAMBDA m : /\ Len(m.name) >= Len(MediaPrefix)
                         /\ Lower(SubSeq(m.name, 1, Len(MediaPrefix))) = MediaPrefix)

\* the extension of a member name: from its last dot on, nothing if it has none
OriginalExtension(name) ==
    IF RFind(name, ".") > RFind(name, "/") THEN SubSeq(name, RFind(name, "."), Len(name))
    ELSE <<>>

\* C5: the DOCX parser returns one asset per member under word/media/, the
\* i-th named docx_image_<i><ext of the i-th member> with that member's bytes,
\* and the images section lists one <img> per asset in the same order.
C5_DocxAssetsInOrder ==
    (Returned /\ parser = "docx") =>
        /\ Len(images) = Len(MediaMembers)
        /\ \A i \in 1..Len(MediaMembers) :
               /\ images[i].k = DocxImagePrefix \o Str(i) \o OriginalExtension(MediaMembers[i].name)
               /\ images[i].v = MediaMembers[i].data
        /\ ImgSeq(html) = Keys(images)

C5_Witness ==
    /\ Returned
    /\ parser = "docx"
    /\ Len(images) = 2
    /\ images[1].v = 22
    /\ images[2].v = 21

\* the extension of the uploaded name, lower-cased: from its last dot on
UploadExtension ==
    LET dot == RFind(upload.name, ".")
    IN  IF dot = 0 THEN <<>> ELSE Lower(SubSeq(upload.name, dot, Len(upload.name)))

\* C6: the parser is chosen by the case-insensitive extension alone, and for
\* any other extension the upload fails as unsupported with no parser invoked.
C6_DispatchByExtension ==
    pc # "start" =>
        CASE UploadExtension = ExtPdf -> parser = "pdf"
          [] UploadExtension = ExtDocx -> parser = "docx"
          [] UploadExtension = ExtZip -> parser = "zip"
          [] UploadExtension = ExtTex -> parser = "tex"
          [] OTHER -> /\ pc = "error"
                      /\ error = "unsupported"
                      /\ parser = "none"
                      /\ html = <<>> /\ images = <<>> /\ package = <<>>
                      /\ pdfHandle = "none" /\ tempFile = EmptyFile

C6_Witness ==
    /\ error = "unsupported"
    /\ upload.name = <<"g", ".", "t", "x", "t">>
    /\ upload.content.fmt = "pdf"

\* C7: a zip archive with no member ending in .tex fails with the missing-
\* source error and no package is ever produced.
C7_NoTexNoPackage ==
    ( /\ parser = "zip"
      /\ pc # "zip"
      /\ IsZip(upload.content)
      /\ \A i \in 1..Len(upload.content.list) :
             LET n == upload.content.list[i].name
             IN  ~(Len(n) >= 4 /\ Lower(SubSeq(n, Len(n) - 3, Len(n))) = ExtTex) )
    => /\ pc = "error"
       /\ error = "zip:no_tex"
       /\ package = <<>>

C7_Witness ==
    /\ error = "zip:no_tex"
    /\ Len(upload.content.list) = 2
    /\ upload.content.fmt = "zip"

\* C8: once the PDF parser has returned or raised, the document handle it
\* opened is closed, and a failure returns no HTML and no image mapping.
C8_PdfHandleReleased ==
    (parser = "pdf" /\ pc \in {"parsed", "packaged", "error"}) =>
        /\ pdfHandle # "open"
        /\ pc = "error" => (html = <<>> /\ images = <<>>)

\* C9: of two conversions running at once, each returns the paragraphs of its
\* own input.
C9_OwnParagraphs ==
    \A p \in Procs : cpc[p] = "done" => cout[p].paragraphs = Paragraphs(cin[p])

\* the resolver as the specification words it, over the pool keys in order
Resolved(keys, r) ==
    LET Matches(c) == {j \in 1..Len(keys) : Lower(Basename(keys[j])) = Lower(c)}
        exts == {e \in 1..Len(ImageExts) : Matches(r \o ImageExts[e]) # {}}
    IN  IF Matches(r) # {} THEN keys[MinOf(Matches(r))]
        ELSE IF exts # {} THEN keys[MinOf(Matches(r \o ImageExts[MinOf(exts)]))]
        ELSE None

\* C10: the resolver returns the first key matching the reference exactly,
\* else the first key matching the reference plus the first extension of
\* .png, .jpg, .jpeg, .gif that matches any key, else unresolved.
C10_ResolverOrder ==
    (Returned /\ parser = "zip") =>
        /\ Len(found) = Len(SourceRefs)
        /\ \A i \in 1..Len(found) :
               found[i] = Resolved(Keys(images), Strip(SourceRefs[i]))

C10_Witness ==
    /\ Returned
    /\ parser = "zip"
    /\ Keys(images) = <<AJpgUpper, DirAPng>>
    /\ SourceRefs = <<RefA, RefMissing>>
    /\ found = <<DirAPng, None>>

====
